---------------------------- MODULE Spec2Model ----------------------------
(***************************************************************************)
(* Climatology engine of the Boerne water dashboard                        *)
(* (boerne-water-supply/pycode): the julian reference calendar of          *)
(* GlobalSetup, the rolling mean, the per-(site, julian) percentile bands  *)
(* and the status classifiers of the streamflow, reservoir and             *)
(* groundwater processors, the update runs of the streamflow, reservoir,   *)
(* groundwater and water-quality processors (construction, fetch, merge,   *)
(* smoothing, statistics, current conditions, save), and the processing    *)
(* and cumulative sum of the demand processor.                             *)
(*                                                                         *)
(* Numbers.  Observed values are whole units.  Percentiles (numpy's        *)
(* default linear interpolation) and current values are fixed-point        *)
(* numbers counted in ticks of 1/Scale unit, which represents every        *)
(* 10/25/50/75/90th percentile of whole-unit data exactly.  A missing      *)
(* value (pandas NaN) is the model value NaN, a number below every value   *)
(* of the data (all modelled data is >= 0); the comparisons Le and Lt are  *)
(* False whenever an operand is NaN, as in IEEE 754.                       *)
(***************************************************************************)
EXTENDS Integers, Sequences, FiniteSets, TLC

VARIABLES
    pc,          \* the step the modelled run has reached
    df,          \* the data frame at work: the row that is given its julian day, the demand table
    obs,         \* the roll_mean / percentStorage / depth_ft values of one (site, julian) group
    flow,        \* the current value of the site's most recent row (ticks or NaN)
    stats,       \* the statistics table: restricted to the current row's key, or whole in a run
    conditions,  \* the current row after the left join with stats; the table of them in a run
    status,      \* status per processor, "unset" until determined
    color,       \* get_status_color(status.streamflow), "unset" until mapped
    series,      \* input of moving_average
    window,      \* window of moving_average
    roll_mean,   \* output of moving_average (the column roll_mean of new_data in a run), <<>> until computed
    processor,   \* the processor whose update run is modelled, "none" outside a run
    runs,        \* the number of update runs started
    disk,        \* the persisted files: the history the processor loads, the files written by the current run
    sites,       \* self.sites['site'].unique(): the sites in the order of the sites file, <<>> until loaded
    site,        \* position of the fetch loop in the site list
    failed,      \* the sites whose fetch raised
    historic_data,  \* self.historic_data / self.old_data as loaded
    new_data,    \* the fetched rows (demand_data in the demand steps)
    combined_data,  \* combined_data / all_data, <<>> until built
    stats_arg    \* the table passed to the statistics step, <<>> before the call, <<table>> after

\* the variables of the calendar, status and smoothing steps
calc_vars == <<df, obs, flow, stats, conditions, status, color,
               series, window, roll_mean>>

\* the variables of an update run
update_vars == <<processor, runs, disk, sites, site, failed, historic_data,
                 new_data, combined_data, stats_arg>>

vars == <<pc, calc_vars, update_vars>>

\* no update run is modelled
NoUpdate ==
    /\ processor = "none" /\ runs = 0
    /\ disk = [history |-> <<>>, written |-> {}]
    /\ sites = <<>> /\ site = 0 /\ failed = {}
    /\ historic_data = <<>> /\ new_data = <<>> /\ combined_data = <<>>
    /\ stats_arg = <<>>

\* np.nan
NaN == -1

\* pd.isna
IsNaN(x) == x = NaN

\* a <= b and a < b on floats: False when an operand is NaN
Le(a, b) == ~IsNaN(a) /\ ~IsNaN(b) /\ a <= b

Lt(a, b) == ~IsNaN(a) /\ ~IsNaN(b) /\ a < b

-----------------------------------------------------------------------------
(* Bounds of the model *)

\* last year of the dates that are given a julian day
LastYear == 2100

\* largest observed value (whole units); values are 0..MaxValue or NaN
MaxValue == 2

\* largest number of rows in one (site, julian) group
MaxObs == 3

\* longest series given to moving_average
MaxLen == 4

\* largest window given to moving_average
MaxWindow == 3

\* first year of the data (GlobalSetup.start_date)
FirstYear == 1990

-----------------------------------------------------------------------------
(* Calendar: GlobalSetup.create_julian_reference and the lookups           *)

\* the calendar the dates come from: a year has a Feb 29 iff it is
\* divisible by 4 and not by 100, or by 400
GregorianLeap(y) == y % 4 = 0 /\ (y % 100 # 0 \/ y % 400 = 0)

DaysInMonth(y, m) ==
    IF m = 2 THEN (IF GregorianLeap(y) THEN 29 ELSE 28)
    ELSE IF m \in {4, 6, 9, 11} THEN 30 ELSE 31

\* a lookup that ignores pd.Timestamp.is_leap_year's century rule
IsLeapYear_div4(y) == y % 4 = 0

\* pd.Timestamp(row['date']).is_leap_year
IsLeapYear(y) == (y % 4 = 0 /\ y % 100 # 0) \/ y % 400 = 0

\* strftime('%m-%d'): the string "mm-dd", encoded as the number mmdd
StrfMonthDay(m, d) == m * 100 + d

RECURSIVE DateRangeFrom(_, _)
\* the dates of year y from the first day of month m to Dec 31, in order
DateRangeFrom(y, m) ==
    IF m > 12 THEN <<>>
    ELSE [d \in 1..DaysInMonth(y, m) |-> [year |-> y, month |-> m, day |-> d]]
         \o DateRangeFrom(y, m + 1)

\* pd.date_range(date(y, 1, 1), date(y, 12, 31))
DateRange(y) == DateRangeFrom(y, 1)

\* DataFrame.iloc[a:b] with 0-based a (inclusive) and b (exclusive)
Iloc(t, a, b) == SubSeq(t, a + 1, b)

\* the years whose dates build the reference: 2021, and 2020 "was a leap year"
NonLeapRefYear == 2021

LeapRefYear == 2020

\* number of rows placed before the Feb 29 entry
Feb29Position == 59

\* first row label (0-based, after reset_index) that is renumbered
LeapShiftFrom == 60

\* first value of the range written into julian_index_leap
LeapShiftStart == 61

\* the reference without the renumbering of the leap column after Feb 29
create_julian_reference_noshift ==
    LET all_dates == DateRange(NonLeapRefYear)
        julian_df == [i \in 1..Len(all_dates) |->
                        [day_month         |-> StrfMonthDay(all_dates[i].month, all_dates[i].day),
                         julian_index      |-> i,
                         day_month_leap    |-> StrfMonthDay(all_dates[i].month, all_dates[i].day),
                         julian_index_leap |-> i]]
        feb29_entry == <<[day_month         |-> StrfMonthDay(2, 29),
                          julian_index      |-> NaN,
                          day_month_leap    |-> StrfMonthDay(2, 29),
                          julian_index_leap |-> 60]>>
    IN  Iloc(julian_df, 0, Feb29Position) \o feb29_entry
        \o Iloc(julian_df, Feb29Position, Len(julian_df))

\* GlobalSetup.create_julian_reference (rows are 1-based here, 0-based in
\* the data frame)
create_julian_reference ==
    LET all_dates == DateRange(NonLeapRefYear)
        \* non-leap frame with the leap columns copied from it
        julian_df == [i \in 1..Len(all_dates) |->
                        [day_month         |-> StrfMonthDay(all_dates[i].month, all_dates[i].day),
                         julian_index      |-> i,
                         day_month_leap    |-> StrfMonthDay(all_dates[i].month, all_dates[i].day),
                         julian_index_leap |-> i]]
        feb29_entry == <<[day_month         |-> StrfMonthDay(2, 29),
                          julian_index      |-> NaN,
                          day_month_leap    |-> StrfMonthDay(2, 29),
                          julian_index_leap |-> 60]>>
        concat == Iloc(julian_df, 0, Feb29Position) \o feb29_entry
                  \o Iloc(julian_df, Feb29Position, Len(julian_df))
    IN  \* .loc[60:, 'julian_index_leap'] = range(61, 367), labels 0-based
        [p \in 1..Len(concat) |->
            IF p - 1 >= LeapShiftFrom
            THEN [concat[p] EXCEPT !.julian_index_leap = LeapShiftStart + (p - 1 - LeapShiftFrom)]
            ELSE concat[p]]

\* GlobalSetup.__init__: self.julian_ref = self.create_julian_reference(),
\* built once at construction and never written again
julian_ref == create_julian_reference

\* ReservoirDataProcessor._add_julian_dates.get_julian_day, up to its
\* final .iloc[0]: the julian column of the rows of the reference whose
\* month-day column (leap or non-leap, by the year of the date) equals the
\* row's
\*   julian_ref.loc[julian_ref[day_month_col] == row['day_month'], julian_col]
reservoir_get_julian_day_nonleap(ref, row) ==
    LET hits == SelectSeq(ref, LAMBDA r: r.day_month = row.day_month)
    IN  [i \in 1..Len(hits) |-> hits[i].julian_index]

reservoir_get_julian_day(ref, row) ==
    LET is_leap == IsLeapYear(row.date.year)
        hits == SelectSeq(ref, LAMBDA r:
                    IF is_leap THEN r.day_month_leap = row.day_month
                               ELSE r.day_month = row.day_month)
    IN  [i \in 1..Len(hits) |->
            IF is_leap THEN hits[i].julian_index_leap ELSE hits[i].julian_index]

\* DemandDataProcessor.add_julian_dates.get_julian_day, up to its final
\* .iloc[0]
demand_get_julian_day_leap(ref, row) ==
    LET hits == SelectSeq(ref, LAMBDA r: r.day_month_leap = row.day_month)
    IN  [i \in 1..Len(hits) |-> hits[i].julian_index_leap]

demand_get_julian_day(ref, row) ==
    LET is_leap == IsLeapYear(row.date.year)
        hits == SelectSeq(ref, LAMBDA r:
                    IF is_leap THEN r.day_month_leap = row.day_month
                               ELSE r.day_month = row.day_month)
    IN  [i \in 1..Len(hits) |->
            IF is_leap THEN hits[i].julian_index_leap ELSE hits[i].julian_index]

\* the valid calendar dates of the years FirstYear..LastYear
ValidDates ==
    {dt \in [year : FirstYear..LastYear, month : 1..12, day : 1..31] :
        dt.day <= DaysInMonth(dt.year, dt.month)}

\* the variables of the other pipelines, at rest
Idle ==
    /\ obs = <<>> /\ flow = NaN /\ stats = <<>> /\ conditions = <<>>
    /\ status = [streamflow |-> "unset", reservoir |-> "unset", groundwater |-> "unset"]
    /\ color = "unset"
    /\ series = <<>> /\ window = 1 /\ roll_mean = <<>>

\* GlobalSetup.__init__ has built the reference; one fetched row with a
\* valid date awaits its julian day
InitCalendar ==
    /\ NoUpdate
    /\ pc = "fetched"
    /\ \E dt \in ValidDates : df = [date |-> dt]
    /\ Idle

\* df['year'] = df['date'].dt.year; df['day_month'] = strftime('%m-%d')
WithDayMonth(row) ==
    [date      |-> row.date,
     year      |-> row.date.year,
     day_month |-> StrfMonthDay(row.date.month, row.date.day)]

\* ReservoirDataProcessor._add_julian_dates: .iloc[0] of an empty selection
\* raises IndexError, which is logged and re-raised
reservoir_add_julian_dates ==
    /\ pc = "fetched"
    /\ LET row == WithDayMonth(df)
           sel == reservoir_get_julian_day(julian_ref, row)
       IN  IF Len(sel) = 0
           THEN pc' = "error" /\ df' = df
           ELSE /\ pc' = "reservoir_julian"
                /\ df' = [date |-> row.date, year |-> row.year,
                          day_month |-> row.day_month, julian |-> sel[1]]
    /\ UNCHANGED <<obs, flow, stats, conditions, status, color,
                   series, window, roll_mean>>
    /\ UNCHANGED update_vars

\* DemandDataProcessor.add_julian_dates
demand_add_julian_dates ==
    /\ pc = "fetched"
    /\ LET row == WithDayMonth(df)
           sel == demand_get_julian_day(julian_ref, row)
       IN  IF Len(sel) = 0
           THEN pc' = "error" /\ df' = df
           ELSE /\ pc' = "demand_julian"
                /\ df' = [date |-> row.date, year |-> row.year,
                          day_month |-> row.day_month, julian |-> sel[1]]
    /\ UNCHANGED <<obs, flow, stats, conditions, status, color,
                   series, window, roll_mean>>
    /\ UNCHANGED update_vars

NextCalendar == reservoir_add_julian_dates \/ demand_add_julian_dates

SpecCalendar == InitCalendar /\ [][NextCalendar]_vars

\* the day of the year counted with 28 days of February in every year
dayofyear_nonleap(dt) ==
    LET len(m) == IF m = 2 THEN 28 ELSE IF m \in {4, 6, 9, 11} THEN 30 ELSE 31
        before[m \in 1..12] == IF m = 1 THEN 0 ELSE before[m - 1] + len(m - 1)
    IN  before[dt.month] + dt.day

\* Series.dt.dayofyear: the ordinal day of the date in its year, 1 for
\* Jan 1, with Feb 29 counted in the years that have one
dayofyear(dt) ==
    LET before[m \in 1..12] ==
            IF m = 1 THEN 0 ELSE before[m - 1] + DaysInMonth(dt.year, m - 1)
    IN  before[dt.month] + dt.day

\* update_streamflow_data on a fetched row:
\*   new_data['julian'] = new_data['datetime'].dt.dayofyear
\*   new_data['year'] = new_data['datetime'].dt.year
streamflow_dayofyear ==
    /\ pc = "fetched"
    /\ pc' = "streamflow_julian"
    /\ df' = [date |-> df.date, year |-> df.date.year,
              day_month |-> StrfMonthDay(df.date.month, df.date.day),
              julian |-> dayofyear(df.date)]
    /\ UNCHANGED <<obs, flow, stats, conditions, status, color,
                   series, window, roll_mean>>
    /\ UNCHANGED update_vars

\* the three ways a fetched row is given its day index
NextDayIndex == NextCalendar \/ streamflow_dayofyear

SpecDayIndex == InitCalendar /\ [][NextDayIndex]_vars

\* the row has been through a julian-day lookup (of either processor)
JulianAssigned == pc \in {"reservoir_julian", "demand_julian"}

LookupEnded == pc \in {"reservoir_julian", "demand_julian", "error"}

IsDate(m, d) == df.date.month = m /\ df.date.day = d

-----------------------------------------------------------------------------
(* Claims about the calendar, checked under SpecCalendar                   *)

\* the date of df moved to the reference year of the same leap-ness
CanonicalRow ==
    [date |-> [year  |-> IF GregorianLeap(df.date.year) THEN LeapRefYear
                                                         ELSE NonLeapRefYear,
               month |-> df.date.month,
               day   |-> df.date.day],
     day_month |-> StrfMonthDay(df.date.month, df.date.day)]

\* C6: for every valid date of 1990..2100 the lookup against the julian
\* reference ends with an index (never an error), the index is a whole
\* number in 1..366, and it is the index of the same month-day in any
\* other year of the same leap-ness (here: the reference year).
C6_DayIndexInRangeAndStable ==
    LookupEnded =>
        /\ JulianAssigned
        /\ df.julian \in 1..366
        /\ pc = "reservoir_julian" =>
              <<df.julian>> = reservoir_get_julian_day(julian_ref, CanonicalRow)
        /\ pc = "demand_julian" =>
              <<df.julian>> = demand_get_julian_day(julian_ref, CanonicalRow)

C6_Witness ==
    /\ pc = "reservoir_julian"
    /\ df.date.year = LastYear /\ IsDate(12, 31) /\ df.julian = 365

\* C7 as stated: in a non-leap year no date has index 60 and Dec 31 has 365.
C7_Original ==
    (JulianAssigned /\ ~GregorianLeap(df.date.year)) =>
        /\ df.julian # 60
        /\ IsDate(12, 31) => df.julian = 365

\* C7 as amended: in a non-leap year index 60 is the index of Mar 1 and of
\* no other date (Feb 28 has 59, no date takes an index of a Feb 29 of its
\* own), and Dec 31 has 365.
C7_NonLeapIndex ==
    (JulianAssigned /\ ~GregorianLeap(df.date.year)) =>
        /\ df.julian = 60 <=> IsDate(3, 1)
        /\ IsDate(2, 28) => df.julian = 59
        /\ IsDate(12, 31) => df.julian = 365

C7_Witness ==
    /\ pc = "demand_julian" /\ ~GregorianLeap(df.date.year)
    /\ IsDate(3, 1) /\ df.julian = 60

\* C8: in a leap year (divisible by 4, not by 100 unless by 400) Feb 29 has
\* index 60 and Dec 31 has 366; 2000 is such a year and 2100 is not, so
\* Dec 31 of 2100 has 365.
C8_LeapIndex ==
    JulianAssigned =>
        /\ GregorianLeap(df.date.year) =>
              /\ IsDate(2, 29) => df.julian = 60
              /\ IsDate(12, 31) => df.julian = 366
        /\ (df.date.year = 2000 /\ IsDate(12, 31)) => df.julian = 366
        /\ (df.date.year = 2100 /\ IsDate(12, 31)) => df.julian = 365

C8_Witness ==
    /\ pc = "demand_julian" /\ df.date.year = 2000
    /\ IsDate(2, 29) /\ df.julian = 60

\* the month-days "01-01" .. "12-31" as strftime('%m-%d') writes them
MonthDays == {StrfMonthDay(m, d) : m \in 1..12, d \in 1..31}

\* the index values each column of the reference holds for a month-day
NonLeapColumnOf ==
    [md \in MonthDays |->
        {julian_ref[i].julian_index :
            i \in {j \in 1..Len(julian_ref) : julian_ref[j].day_month = md}}]

LeapColumnOf ==
    [md \in MonthDays |->
        {julian_ref[i].julian_index_leap :
            i \in {j \in 1..Len(julian_ref) : julian_ref[j].day_month_leap = md}}]

NonLeapColumn(md) == NonLeapColumnOf[md]

LeapColumn(md) == LeapColumnOf[md]

\* C9: in the reference table every month-day from 01-01 to 02-28 has one
\* index, in 1..59, the same in the leap and the non-leap column; every
\* month-day from 03-01 to 12-31 has non-leap index i in 60..365 and leap
\* index i + 1.  (Stated for the month-day of df: the dates of the
\* specification cover every month-day.)
C9_ReferenceColumns ==
    LET md == StrfMonthDay(df.date.month, df.date.day)
        nl == NonLeapColumn(md)
        lp == LeapColumn(md)
    IN  /\ Cardinality(nl) = 1 /\ Cardinality(lp) = 1
        /\ md <= StrfMonthDay(2, 28) => (nl \subseteq 1..59 /\ lp = nl)
        /\ md >= StrfMonthDay(3, 1) =>
              (nl \subseteq 60..365 /\ lp = {i + 1 : i \in nl})

C9_Witness ==
    /\ pc = "reservoir_julian" /\ GregorianLeap(df.date.year)
    /\ IsDate(3, 1) /\ df.julian = 61
    /\ NonLeapColumn(StrfMonthDay(3, 1)) = {60}
-----------------------------------------------------------------------------
(* Statistics: the groupby(['site', 'julian']).agg of the three processors *)

\* ticks per unit: the ranks 10, 25, 50, 75, 90 are multiples of 1/20
Scale == 20

\* the sequences over S of length 0..n
RECURSIVE SeqUpTo(_, _)
SeqUpTo(S, n) ==
    IF n = 0 THEN {<<>>}
    ELSE LET shorter == SeqUpTo(S, n - 1)
         IN  shorter \cup {Append(q, x) : q \in {t \in shorter : Len(t) = n - 1}, x \in S}

\* Series.dropna()
RECURSIVE DropNaN(_)
DropNaN(xs) ==
    IF xs = <<>> THEN <<>>
    ELSE IF IsNaN(Head(xs)) THEN DropNaN(Tail(xs))
    ELSE <<Head(xs)>> \o DropNaN(Tail(xs))

\* x placed into the ascending sequence xs
RECURSIVE Insert(_, _)
Insert(x, xs) ==
    IF xs = <<>> THEN <<x>>
    ELSE IF x <= Head(xs) THEN <<x>> \o xs
    ELSE <<Head(xs)>> \o Insert(x, Tail(xs))

\* np.sort, as np.percentile orders its input
RECURSIVE Sort(_)
Sort(xs) == IF xs = <<>> THEN <<>> ELSE Insert(Head(xs), Sort(Tail(xs)))

HasNaN(xs) == \E i \in 1..Len(xs) : IsNaN(xs[i])

\* np.percentile(x, q, method='nearest'): the sorted value at the position
\* nearest to (n - 1) * q / 100, without interpolation
percentile_nearest(xs, q) ==
    IF HasNaN(xs) THEN NaN
    ELSE LET sorted == Sort(xs)
             pos == (Len(xs) - 1) * q
         IN  Scale * sorted[(pos + 50) \div 100 + 1]

\* np.percentile(x, q) of a non-empty x, in ticks: NaN if x holds a NaN,
\* else linear interpolation between the order statistics around the
\* 0-based position (n - 1) * q / 100
percentile(xs, q) ==
    IF HasNaN(xs) THEN NaN
    ELSE LET sorted == Sort(xs)
             n   == Len(xs)
             pos == (n - 1) * q            \* in hundredths of a position
             lo  == pos \div 100
             fr  == pos % 100
             hi  == IF lo + 1 < n THEN lo + 1 ELSE lo
         IN  Scale * sorted[lo + 1]
             + (fr * Scale * (sorted[hi + 1] - sorted[lo + 1])) \div 100

\* 'min' and 'max' of a group skip NaN; NaN for a group without a value
GroupMin(xs) ==
    LET v == DropNaN(xs) IN IF v = <<>> THEN NaN ELSE Scale * Sort(v)[1]

GroupMax(xs) ==
    LET v == DropNaN(xs) IN IF v = <<>> THEN NaN ELSE Scale * Sort(v)[Len(v)]

\* one row of the statistics table: the agg of one (site, julian) group
\*   'count', 'min', np.percentile(x, 10 / 25 / 50 / 75 / 90), 'max'
GroupStats(xs) ==
    [Nobs   |-> Len(DropNaN(xs)),
     min    |-> GroupMin(xs),
     flow10 |-> percentile(xs, 10),
     flow25 |-> percentile(xs, 25),
     flow50 |-> percentile(xs, 50),
     flow75 |-> percentile(xs, 75),
     flow90 |-> percentile(xs, 90),
     max    |-> GroupMax(xs)]

\* the statistics rows with the current row's (site, julian) key: a group
\* that has rows gives one row, and no rows give none
calculate_statistics(xs) == IF xs = <<>> THEN <<>> ELSE <<GroupStats(xs)>>

\* current.merge(stats, on=['site', 'julian'], how='left'): the current
\* row with the columns of its statistics row, NaN where there is none
MergeLeft(current, st) ==
    IF st = <<>>
    THEN [flow |-> current, Nobs |-> NaN, min |-> NaN, flow10 |-> NaN,
          flow25 |-> NaN, flow50 |-> NaN, flow75 |-> NaN, flow90 |-> NaN,
          max |-> NaN]
    ELSE [flow |-> current, Nobs |-> st[1].Nobs, min |-> st[1].min,
          flow10 |-> st[1].flow10, flow25 |-> st[1].flow25,
          flow50 |-> st[1].flow50, flow75 |-> st[1].flow75,
          flow90 |-> st[1].flow90, max |-> st[1].max]

-----------------------------------------------------------------------------
(* Status: determine_status of the three processors, get_status_color      *)

Statuses ==
    {"unknown", "Extremely Dry", "Very Dry", "Moderately Dry",
     "Moderately Wet", "Very Wet", "Extremely Wet"}

\* determine_status with the last test written out and no final else
streamflow_determine_status_noelse(row) ==
    IF IsNaN(row.flow) THEN "unknown"
    ELSE IF Le(row.flow, row.flow10) THEN "Extremely Dry"
    ELSE IF Le(row.flow, row.flow25) THEN "Very Dry"
    ELSE IF Lt(row.flow, row.flow50) THEN "Moderately Dry"
    ELSE IF Lt(row.flow, row.flow75) THEN "Moderately Wet"
    ELSE IF Lt(row.flow, row.flow90) THEN "Very Wet"
    ELSE IF Le(row.flow90, row.flow) THEN "Extremely Wet"
    ELSE "None"

\* determine_status with < at the 10th percentile
streamflow_determine_status_lt10(row) ==
    IF IsNaN(row.flow) THEN "unknown"
    ELSE IF Lt(row.flow, row.flow10) THEN "Extremely Dry"
    ELSE IF Le(row.flow, row.flow25) THEN "Very Dry"
    ELSE IF Lt(row.flow, row.flow50) THEN "Moderately Dry"
    ELSE IF Lt(row.flow, row.flow75) THEN "Moderately Wet"
    ELSE IF Lt(row.flow, row.flow90) THEN "Very Wet"
    ELSE "Extremely Wet"

\* StreamflowProcessor.determine_status(row)
streamflow_determine_status(row) ==
    IF IsNaN(row.flow) THEN "unknown"
    ELSE IF Le(row.flow, row.flow10) THEN "Extremely Dry"
    ELSE IF Le(row.flow, row.flow25) THEN "Very Dry"
    ELSE IF Lt(row.flow, row.flow50) THEN "Moderately Dry"
    ELSE IF Lt(row.flow, row.flow75) THEN "Moderately Wet"
    ELSE IF Lt(row.flow, row.flow90) THEN "Very Wet"
    ELSE "Extremely Wet"

\* determine_status with <= at the median
reservoir_determine_status_le50(row) ==
    IF IsNaN(row.percent_storage) THEN "unknown"
    ELSE IF Le(row.percent_storage, row.flow10) THEN "Extremely Dry"
    ELSE IF Le(row.percent_storage, row.flow25) THEN "Very Dry"
    ELSE IF Le(row.percent_storage, row.flow50) THEN "Moderately Dry"
    ELSE IF Lt(row.percent_storage, row.flow75) THEN "Moderately Wet"
    ELSE IF Lt(row.percent_storage, row.flow90) THEN "Very Wet"
    ELSE "Extremely Wet"

\* ReservoirDataProcessor.determine_status(row)
reservoir_determine_status(row) ==
    IF IsNaN(row.percent_storage) THEN "unknown"
    ELSE IF Le(row.percent_storage, row.flow10) THEN "Extremely Dry"
    ELSE IF Le(row.percent_storage, row.flow25) THEN "Very Dry"
    ELSE IF Lt(row.percent_storage, row.flow50) THEN "Moderately Dry"
    ELSE IF Lt(row.percent_storage, row.flow75) THEN "Moderately Wet"
    ELSE IF Lt(row.percent_storage, row.flow90) THEN "Very Wet"
    ELSE "Extremely Wet"

\* determine_status with < at the 10th percentile
groundwater_determine_status_lt10(current, st) ==
    IF IsNaN(current) THEN "unknown"
    ELSE IF Lt(current, st.flow10) THEN "Extremely Wet"
    ELSE IF Le(current, st.flow25) THEN "Very Wet"
    ELSE IF Lt(current, st.flow50) THEN "Moderately Wet"
    ELSE IF Lt(current, st.flow75) THEN "Moderately Dry"
    ELSE IF Lt(current, st.flow90) THEN "Very Dry"
    ELSE "Extremely Dry"

\* GroundwaterProcessor.determine_status(current, stats)
groundwater_determine_status(current, st) ==
    IF IsNaN(current) THEN "unknown"
    ELSE IF Le(current, st.flow10) THEN "Extremely Wet"
    ELSE IF Le(current, st.flow25) THEN "Very Wet"
    ELSE IF Lt(current, st.flow50) THEN "Moderately Wet"
    ELSE IF Lt(current, st.flow75) THEN "Moderately Dry"
    ELSE IF Lt(current, st.flow90) THEN "Very Dry"
    ELSE "Extremely Dry"

\* a color map that gives "Very Wet" the color of "Extremely Wet"
get_status_color_navy(s) ==
    CASE s = "Extremely Dry"  -> "darkred"
      [] s = "Very Dry"       -> "red"
      [] s = "Moderately Dry" -> "orange"
      [] s = "Moderately Wet" -> "cornflowerblue"
      [] s = "Very Wet"       -> "navy"
      [] s = "Extremely Wet"  -> "navy"
      [] s = "unknown"        -> "gray"
      [] OTHER                -> "gray"

\* StreamflowProcessor.get_status_color: color_map.get(status, "gray")
get_status_color(s) ==
    CASE s = "Extremely Dry"  -> "darkred"
      [] s = "Very Dry"       -> "red"
      [] s = "Moderately Dry" -> "orange"
      [] s = "Moderately Wet" -> "cornflowerblue"
      [] s = "Very Wet"       -> "blue"
      [] s = "Extremely Wet"  -> "navy"
      [] s = "unknown"        -> "gray"
      [] OTHER                -> "gray"

\* the values a group may hold, and the current values (in ticks)
Values == (0..MaxValue) \cup {NaN}

CurrentValues == (0..(MaxValue * Scale)) \cup {NaN}

\* the combined data is in place: the rows of the (site, julian) group of
\* the site's most recent row, and that row's current value
InitStatus ==
    /\ NoUpdate
    /\ pc = "combined"
    /\ df = [date |-> [year |-> FirstYear, month |-> 1, day |-> 1]]
    /\ obs \in SeqUpTo(Values, MaxObs)
    /\ flow \in CurrentValues
    /\ stats = <<>> /\ conditions = <<>>
    /\ status = [streamflow |-> "unset", reservoir |-> "unset", groundwater |-> "unset"]
    /\ color = "unset"
    /\ series = <<>> /\ window = 1 /\ roll_mean = <<>>

\* _calculate_flow_statistics / _calculate_statistics / calculate_statistics
calculate_flow_statistics ==
    /\ pc = "combined"
    /\ stats' = calculate_statistics(obs)
    /\ pc' = "stats"
    /\ UNCHANGED <<df, obs, flow, conditions, status, color, series, window, roll_mean>>
    /\ UNCHANGED update_vars

\* StreamflowProcessor._calculate_current_conditions: left join, status, color
calculate_current_conditions ==
    /\ pc = "stats" /\ status.streamflow = "unset"
    /\ LET row == MergeLeft(flow, stats)
           st  == streamflow_determine_status(row)
       IN  /\ conditions' = row
           /\ status' = [status EXCEPT !.streamflow = st]
           /\ color' = get_status_color(st)
    /\ UNCHANGED <<pc, df, obs, flow, stats, series, window, roll_mean>>
    /\ UNCHANGED update_vars

\* GroundwaterProcessor.create_geojson: left join, then
\* determine_status(row['depth_ft'], row)
create_geojson ==
    /\ pc = "stats" /\ status.groundwater = "unset"
    /\ LET row == MergeLeft(flow, stats)
       IN  /\ conditions' = row
           /\ status' = [status EXCEPT
                            !.groundwater = groundwater_determine_status(row.flow, row)]
    /\ UNCHANGED <<pc, df, obs, flow, stats, color, series, window, roll_mean>>
    /\ UNCHANGED update_vars

\* ReservoirDataProcessor.determine_status applied to the joined row, whose
\* current value it reads as row['percent_storage']
reservoir_status ==
    /\ pc = "stats" /\ status.reservoir = "unset"
    /\ LET row == MergeLeft(flow, stats)
           r   == [percent_storage |-> row.flow, flow10 |-> row.flow10,
                   flow25 |-> row.flow25, flow50 |-> row.flow50,
                   flow75 |-> row.flow75, flow90 |-> row.flow90]
       IN  /\ conditions' = row
           /\ status' = [status EXCEPT !.reservoir = reservoir_determine_status(r)]
    /\ UNCHANGED <<pc, df, obs, flow, stats, color, series, window, roll_mean>>
    /\ UNCHANGED update_vars

NextStatus ==
    \/ calculate_flow_statistics
    \/ calculate_current_conditions
    \/ create_geojson
    \/ reservoir_status

SpecStatus == InitStatus /\ [][NextStatus]_vars

\* the roll_mean values of one (site, julian) group: five observations of
\* one site on day index 100
ExampleHistory == <<5, 10, 15, 20, 25>>

\* the orders in which the rows of the group xs can stand in the data
RowOrders(xs) ==
    {ys \in [1..Len(xs) -> {xs[i] : i \in 1..Len(xs)}] :
        \A i, j \in 1..Len(xs) : i # j => ys[i] # ys[j]}

\* the combined data holds the example group, its rows in any order, and a
\* current value of a whole number of units
InitExample ==
    /\ NoUpdate
    /\ pc = "combined"
    /\ df = [date |-> [year |-> FirstYear, month |-> 1, day |-> 1]]
    /\ obs \in RowOrders(ExampleHistory)
    /\ flow \in {Scale * c : c \in 0..30}
    /\ stats = <<>> /\ conditions = <<>>
    /\ status = [streamflow |-> "unset", reservoir |-> "unset", groundwater |-> "unset"]
    /\ color = "unset"
    /\ series = <<>> /\ window = 1 /\ roll_mean = <<>>

SpecExample == InitExample /\ [][NextStatus]_vars

-----------------------------------------------------------------------------
(* Claims about the classifiers, checked under SpecStatus                  *)

Processors == {"streamflow", "reservoir", "groundwater"}

\* no statistics row for the current row's key, or one built from no value
NoUsableBand == stats = <<>> \/ stats[1].Nobs = 0

\* a statistics row with all five percentiles
BandPresent == stats # <<>> /\ ~IsNaN(stats[1].flow10)

\* C1: a current value that is present, with no usable band for its
\* (site, julian) key, is given the status "unknown" by the streamflow
\* current-conditions step.
C1_UnknownWithoutBand ==
    (status.streamflow # "unset" /\ ~IsNaN(flow) /\ NoUsableBand) =>
        status.streamflow = "unknown"

\* C2: whatever the current value and the band (either may be absent, the
\* value may equal a percentile), each determine_status returns one of the
\* seven statuses.
C2_ClassifyTotal ==
    \A p \in Processors : status[p] # "unset" => status[p] \in Statuses

C2_Witness ==
    /\ \A p \in Processors : status[p] \in Statuses
    /\ ~IsNaN(flow) /\ stats = <<>>

\* the first matching test of the direct mapping, on present numbers
DirectFirstMatch(c, b) ==
    IF c <= b.flow10 THEN "Extremely Dry"
    ELSE IF c <= b.flow25 THEN "Very Dry"
    ELSE IF c < b.flow50 THEN "Moderately Dry"
    ELSE IF c < b.flow75 THEN "Moderately Wet"
    ELSE IF c < b.flow90 THEN "Very Wet"
    ELSE "Extremely Wet"

PairwiseDistinct(b) ==
    Cardinality({b.flow10, b.flow25, b.flow50, b.flow75, b.flow90}) = 5

\* C3: in the direct mapping (streamflow, reservoir) a present value c with
\* a present band gets the status of the first matching test in the order
\* c <= p10, c <= p25, c < p50, c < p75, c < p90, else; with pairwise
\* distinct percentiles c = p10 is Extremely Dry, c = p25 Very Dry,
\* c = p50 Moderately Wet, c = p75 Very Wet and c = p90 Extremely Wet.
C3_DirectOrder ==
    \A p \in {"streamflow", "reservoir"} :
        (status[p] # "unset" /\ ~IsNaN(flow) /\ BandPresent) =>
            LET b == stats[1]
            IN  /\ status[p] = DirectFirstMatch(flow, b)
                /\ PairwiseDistinct(b) =>
                      /\ flow = b.flow10 => status[p] = "Extremely Dry"
                      /\ flow = b.flow25 => status[p] = "Very Dry"
                      /\ flow = b.flow50 => status[p] = "Moderately Wet"
                      /\ flow = b.flow75 => status[p] = "Very Wet"
                      /\ flow = b.flow90 => status[p] = "Extremely Wet"

C3_Witness ==
    /\ status.reservoir = "Moderately Wet" /\ status.streamflow = "Moderately Wet"
    /\ BandPresent /\ PairwiseDistinct(stats[1]) /\ flow = stats[1].flow50

\* Dry <-> Wet at each of the three degrees, unknown kept
Mirror(s) ==
    CASE s = "Extremely Dry"  -> "Extremely Wet"
      [] s = "Very Dry"       -> "Very Wet"
      [] s = "Moderately Dry" -> "Moderately Wet"
      [] s = "Moderately Wet" -> "Moderately Dry"
      [] s = "Very Wet"       -> "Very Dry"
      [] s = "Extremely Wet"  -> "Extremely Dry"
      [] s = "unknown"        -> "unknown"

\* C4: for every current value and band the groundwater status is the
\* mirror image of the direct (reservoir, streamflow) status.
C4_GroundwaterMirror ==
    \A p \in {"streamflow", "reservoir"} :
        (status.groundwater # "unset" /\ status[p] # "unset") =>
            status.groundwater = Mirror(status[p])

C4_Witness ==
    /\ status.groundwater = "Extremely Wet" /\ status.reservoir = "Extremely Dry"
    /\ BandPresent /\ flow = stats[1].flow10

Colors == {"darkred", "red", "orange", "cornflowerblue", "blue", "navy", "gray"}

\* C5: the color stored with a status is one of seven colors, no other
\* status has that color, and an absent current value ends as "unknown"
\* with gray whatever the band.
C5_StatusColor ==
    status.streamflow # "unset" =>
        /\ color \in Colors
        /\ \A s \in Statuses \ {status.streamflow} : get_status_color(s) # color
        /\ status.streamflow = "unknown" => color = "gray"
        /\ IsNaN(flow) => (status.streamflow = "unknown" /\ color = "gray")

C5_Witness ==
    /\ IsNaN(flow) /\ BandPresent
    /\ status.streamflow = "unknown" /\ color = "gray"

-----------------------------------------------------------------------------
(* Smoothing: GlobalSetup.moving_average                                   *)

RECURSIVE Gcd(_, _)
Gcd(a, b) == IF b = 0 THEN a ELSE Gcd(b, a % b)

RECURSIVE LcmUpTo(_)
LcmUpTo(n) ==
    IF n <= 1 THEN 1
    ELSE LET l == LcmUpTo(n - 1) IN (l * n) \div Gcd(l, n)

\* the default of moving_average's window parameter
DefaultWindow == 7

\* ticks per unit of a rolling mean: a mean of up to MaxWindow (and of up to
\* DefaultWindow) whole values is a whole number of ticks
RollScale == LcmUpTo(IF MaxWindow > DefaultWindow THEN MaxWindow ELSE DefaultWindow)

\* Series.rolling(window, min_periods).mean() from 1-based position i on,
\* as pandas slides the window: the entering value is added to the running
\* sum and count of present values, the value leaving at i - window is
\* removed, and the mean is NaN below min_periods present values
RECURSIVE RollingMeanFrom(_, _, _, _, _, _)
RollingMeanFrom(xs, w, minp, i, sum, nobs) ==
    IF i > Len(xs) THEN <<>>
    ELSE LET entering == ~IsNaN(xs[i])
             leaving  == i - w >= 1 /\ ~IsNaN(xs[i - w])
             s == sum + (IF entering THEN xs[i] ELSE 0)
                      - (IF leaving THEN xs[i - w] ELSE 0)
             n == nobs + (IF entering THEN 1 ELSE 0)
                       - (IF leaving THEN 1 ELSE 0)
             mean == IF n >= minp /\ n > 0 THEN (s * RollScale) \div n ELSE NaN
         IN  <<mean>> \o RollingMeanFrom(xs, w, minp, i + 1, s, n)

rolling_mean(xs, w, minp) == RollingMeanFrom(xs, w, minp, 1, 0, 0)

\* rolling(window=window).mean(): min_periods left at its default, the
\* window size
moving_average_full_window(data, w) == rolling_mean(data, w, w)

RECURSIVE SumOver(_, _, _)
\* the sum of the present values among xs[lo..hi]
SumOver(xs, lo, hi) ==
    IF lo > hi THEN 0
    ELSE (IF IsNaN(xs[hi]) THEN 0 ELSE xs[hi]) + SumOver(xs, lo, hi - 1)

\* rolling(window=window, min_periods=1, center=True).mean(): the window of
\* position i reaches (window - 1) // 2 positions ahead of i
moving_average_centered(data, w) ==
    [i \in 1..Len(data) |->
        LET ahead == i + (w - 1) \div 2
            hi == IF ahead > Len(data) THEN Len(data) ELSE ahead
            lo == IF ahead - w + 1 < 1 THEN 1 ELSE ahead - w + 1
            n  == Cardinality({j \in lo..hi : ~IsNaN(data[j])})
        IN  IF n > 0 THEN (SumOver(data, lo, hi) * RollScale) \div n ELSE NaN]

\* GlobalSetup.moving_average:
\*   pd.Series(data).rolling(window=window, min_periods=1).mean().to_numpy()
moving_average(data, w) == rolling_mean(data, w, 1)

InitSmooth ==
    /\ NoUpdate
    /\ pc = "series"
    /\ df = [date |-> [year |-> FirstYear, month |-> 1, day |-> 1]]
    /\ series \in SeqUpTo(Values, MaxLen)
    /\ window \in 1..MaxWindow
    /\ roll_mean = <<>>
    /\ obs = <<>> /\ flow = NaN /\ stats = <<>> /\ conditions = <<>>
    /\ status = [streamflow |-> "unset", reservoir |-> "unset", groundwater |-> "unset"]
    /\ color = "unset"

\* a call of GlobalSetup.moving_average(series, window)
smooth ==
    /\ pc = "series"
    /\ roll_mean' = moving_average(series, window)
    /\ pc' = "smoothed"
    /\ UNCHANGED <<df, obs, flow, stats, conditions, status, color, series, window>>
    /\ UNCHANGED update_vars

NextSmooth == smooth

SpecSmooth == InitSmooth /\ [][NextSmooth]_vars

\* the longest series smoothed with the default window, longer than the
\* window so that values leave it
MaxLongLen == 9

\* moving_average(data) with window left at its default, as
\* _calculate_rolling_average and calculate_demand_statistics call it: series
\* over any two values (absent ones included), constant series among them
InitSmoothDefault ==
    /\ NoUpdate
    /\ pc = "series"
    /\ df = [date |-> [year |-> FirstYear, month |-> 1, day |-> 1]]
    /\ \E a \in Values, b \in Values : series \in SeqUpTo({a, b}, MaxLongLen)
    /\ window = DefaultWindow
    /\ roll_mean = <<>>
    /\ obs = <<>> /\ flow = NaN /\ stats = <<>> /\ conditions = <<>>
    /\ status = [streamflow |-> "unset", reservoir |-> "unset", groundwater |-> "unset"]
    /\ color = "unset"

SpecSmoothDefault == InitSmoothDefault /\ [][NextSmooth]_vars

-----------------------------------------------------------------------------
(* Claims about the smoothing, checked under SpecSmooth                    *)

RECURSIVE SumAt(_, _)
\* the sum of xs over the positions in J
SumAt(xs, J) ==
    IF J = {} THEN 0
    ELSE LET j == CHOOSE k \in J : TRUE IN xs[j] + SumAt(xs, J \ {j})

\* the positions of the present values among xs[max(1, i - w + 1) .. i]
PresentInWindow(xs, w, i) ==
    {j \in (IF i - w + 1 > 1 THEN i - w + 1 ELSE 1)..i : ~IsNaN(xs[j])}

\* C10: the output of moving_average has the length of the input; output[i]
\* is absent exactly when the window ending at i holds no present value,
\* and otherwise is the mean of the window's present values
\* (mean * count = sum, the mean counted in ticks of 1/RollScale).
C10_MovingAverage ==
    pc = "smoothed" =>
        /\ Len(roll_mean) = Len(series)
        /\ \A i \in 1..Len(series) :
              LET J == PresentInWindow(series, window, i)
              IN  /\ IsNaN(roll_mean[i]) <=> J = {}
                  /\ J # {} =>
                        roll_mean[i] * Cardinality(J) = RollScale * SumAt(series, J)

C10_Witness ==
    /\ pc = "smoothed" /\ window = 2 /\ Len(series) = 4
    /\ IsNaN(series[1]) /\ IsNaN(roll_mean[1])
    /\ ~IsNaN(series[2]) /\ IsNaN(series[3]) /\ ~IsNaN(series[4])
    /\ series[2] # series[4]
    /\ roll_mean[3] = RollScale * series[2]
    /\ roll_mean[4] = RollScale * series[4]

-----------------------------------------------------------------------------
(* Update runs: construction, fetch, merge, statistics, save.  A run is    *)
(* one execution of a processor's script: the constructor, then the        *)
(* update method.  Days are numbered from 1; an observation is a row       *)
(* [site, date, value].                                                    *)

\* the number of sites of a processor
NumSites == 2

\* the day of the run (GlobalSetup.today); the history file covers the
\* days before it
Today == 2

\* the number of runs followed
MaxRuns == 2

UpdateProcessors == {"streamflow", "reservoir", "groundwater", "water_quality"}

Sites == 1..NumSites

RECURSIVE RowsOf(_, _)
\* the table with one row of value v per (site, date) key of K, ordered by
\* site and date
RowsOf(K, v) ==
    IF K = {} THEN <<>>
    ELSE LET k == CHOOSE a \in K :
                     \A b \in K : a[1] < b[1] \/ (a[1] = b[1] /\ a[2] <= b[2])
         IN  <<[site |-> k[1], date |-> k[2], value |-> v]>> \o RowsOf(K \ {k}, v)

\* the history file before the first run: one observation (of value 0) per
\* site and past day
InitialHistory == RowsOf(Sites \X (1..(Today - 1)), 0)

\* the file a processor loads as its history
HistoryFile(p) ==
    CASE p = "streamflow"    -> "historic_stream_data.csv"
      [] p = "reservoir"     -> "usace_dams.csv"
      [] p = "groundwater"   -> "historic_gw_depth.csv"
      [] p = "water_quality" -> "historic_water_quality.csv"

\* the files a processor's save step writes, in the order it writes them
SaveFiles(p) ==
    CASE p = "streamflow"    -> <<"all_stream_data.csv", "all_stream_stats.csv",
                                  "all_stream_gauge_sites.geojson",
                                  "current_sites_status.csv">>
      [] p = "reservoir"     -> <<"usace_dams.csv", "all_reservoir_data.csv",
                                  "all_reservoir_stats.csv">>
      [] p = "groundwater"   -> <<"all_gw_depth.csv", "all_monthly_avg.csv",
                                  "all_gw_stats.csv", "all_gw_sites.geojson">>
      [] p = "water_quality" -> <<"all_water_quality.csv">>

\* the files among them that carry the bands and the statuses
DerivedFiles(p) ==
    CASE p = "streamflow"    -> {"all_stream_stats.csv",
                                 "all_stream_gauge_sites.geojson",
                                 "current_sites_status.csv"}
      [] p = "reservoir"     -> {"all_reservoir_stats.csv"}
      [] p = "groundwater"   -> {"all_gw_stats.csv", "all_gw_sites.geojson"}
      [] p = "water_quality" -> {}

\* pd.concat([a, b], ignore_index=True): the rows of a, then the rows of b
concat(a, b) == a \o b

\* the methods of GlobalSetup
GlobalSetupMethods ==
    {"setup_paths", "setup_dates", "create_update_date", "moving_average",
     "notin", "create_julian_reference", "install_required_packages"}

\* the columns of new_data when update_reservoir_data computes
\* percentStorage: those of the merged elevation and storage frames, the
\* four that _fetch_district_data adds and the three of _add_julian_dates
reservoir_new_data_columns ==
    {"date", "elev_Ft", "storage_AF", "fstorage_AF", "locid", "district",
     "NIDID", "name", "year", "day_month", "julian"}

\* number of weeks in the USACE request (p_last)
time_amt == 2

\* the days a USACE request returns: the last time_amt weeks
ReservoirWindow == {d \in 1..Today : d > Today - 7 * time_amt}

\* the last day of a site in the loaded history (0: none)
LastDate(s) ==
    LET ds == {historic_data[i].date : i \in {j \in 1..Len(historic_data) :
                                                historic_data[j].site = s}}
    IN  IF ds = {} THEN 0 ELSE CHOOSE d \in ds : \A e \in ds : e <= d

\* the year of a day: day 1 is the first day of 2022
YearOf(d) == IF d >= 1 THEN 2022 ELSE 2021

\* df[df['year'] >= 2022]
FilterRecent(tbl) == SelectSeq(tbl, LAMBDA r : YearOf(r.date) >= 2022)

SitesOf(tbl) == {tbl[i].site : i \in 1..Len(tbl)}

\* the orders in which the sites file can list the sites
SiteOrders ==
    {o \in [1..NumSites -> Sites] : \A a, b \in 1..NumSites : o[a] = o[b] => a = b}

\* the values a request returns
FetchedValues == 1..MaxValue

\* the date of a day of the runs: day d is Jan d of 2022
DateOf(d) == [year |-> YearOf(d), month |-> 1, day |-> d]

\* a column of the combined table that only the fetched rows have
NewColumn(historic, col) == [i \in 1..Len(historic) |-> NaN] \o col

\* the rolling mean of the 'value' column taken over the table as a whole
calculate_rolling_average_ungrouped(tbl, w) ==
    moving_average([i \in 1..Len(tbl) |-> tbl[i].value], w)

\* StreamflowProcessor._calculate_rolling_average(df, window), the column
\* roll_mean it adds:
\*   df.groupby('site')['value'].transform(lambda x: moving_average(x, window))
\* every row gets the moving average of the values of its site, in row
\* order, at its position among them
calculate_rolling_average(tbl, w) ==
    [i \in 1..Len(tbl) |->
        LET group == SelectSeq(tbl, LAMBDA r : r.site = tbl[i].site)
            k == Cardinality({j \in 1..i : tbl[j].site = tbl[i].site})
        IN  moving_average([j \in 1..Len(group) |-> group[j].value], w)[k]]

RECURSIVE Unique(_)
\* Series.unique(): the values in the order of their first appearance
Unique(xs) ==
    IF xs = <<>> THEN <<>>
    ELSE <<Head(xs)>> \o Unique(SelectSeq(Tail(xs), LAMBDA x : x # Head(xs)))

RECURSIVE Ascending(_)
\* the keys of a groupby, which sorts them
Ascending(S) ==
    IF S = {} THEN <<>>
    ELSE LET m == CHOOSE a \in S : \A b \in S : a <= b
         IN  <<m>> \o Ascending(S \ {m})

\* the column 'julian' of a row of the combined table
JulianOf(r) == dayofyear(DateOf(r.date))

\* site_stats of _calculate_flow_statistics for one site: one row per
\* julian day of the site's rows, the agg of the roll_mean values of the
\* group, with the first and last year of the site's rows
SiteStats(tbl, col, s) ==
    LET rows == {i \in 1..Len(tbl) : tbl[i].site = s}
        days == Ascending({JulianOf(tbl[i]) : i \in rows})
        years == {YearOf(tbl[i].date) : i \in rows}
        group(j) == LET at == SelectSeq([i \in 1..Len(tbl) |-> i],
                                        LAMBDA i : i \in rows /\ JulianOf(tbl[i]) = j)
                    IN  [k \in 1..Len(at) |-> col[at[k]]]
    IN  [d \in 1..Len(days) |->
            [site    |-> s,
             julian  |-> days[d],
             band    |-> GroupStats(group(days[d])),
             startYr |-> CHOOSE y \in years : \A z \in years : y <= z,
             endYr   |-> CHOOSE y \in years : \A z \in years : z <= y]]

RECURSIVE ConcatStats(_, _, _)
ConcatStats(tbl, col, ss) ==
    IF ss = <<>> THEN <<>>
    ELSE SiteStats(tbl, col, Head(ss)) \o ConcatStats(tbl, col, Tail(ss))

\* StreamflowProcessor._calculate_flow_statistics(df): the site_stats of the
\* sites in the order of df['site'].unique(), concatenated; col is the
\* column roll_mean of df
flow_statistics(tbl, col) ==
    ConcatStats(tbl, col, Unique([i \in 1..Len(tbl) |-> tbl[i].site]))

\* a value of the data in the ticks of the bands built from roll_mean
BandTicks(v) == IF IsNaN(v) THEN NaN ELSE Scale * v

\* the column 'flow' of the combined table: the flow of the history rows,
\* NaN in the fetched rows, which have 'value' and 'roll_mean' instead
FlowColumn(tbl, n_hist) ==
    [i \in 1..Len(tbl) |->
        IF i <= n_hist THEN BandTicks(RollScale * tbl[i].value) ELSE NaN]

\* the row of a site in current_conditions: the site's row with the
\* greatest 'datetime' (idxmax: the first of them; the rows of the history
\* carry no 'datetime'), left-joined to its band on (site, julian), with
\* determine_status of the joined row, which reads its column 'flow', and
\* the color
CurrentRow(tbl, n_hist, col, st, s) ==
    LET dated == {i \in (n_hist + 1)..Len(tbl) : tbl[i].site = s}
        last == CHOOSE i \in dated :
                    \A j \in dated : \/ tbl[j].date < tbl[i].date
                                     \/ (tbl[j].date = tbl[i].date /\ i <= j)
        joined == MergeLeft(FlowColumn(tbl, n_hist)[last],
                      LET hit == SelectSeq(st, LAMBDA b :
                                     b.site = s /\ b.julian = JulianOf(tbl[last]))
                      IN  [k \in 1..Len(hit) |-> hit[k].band])
    IN  [site      |-> s,
         date      |-> tbl[last].date,
         julian    |-> JulianOf(tbl[last]),
         roll_mean |-> col[last],
         joined    |-> joined,
         status    |-> streamflow_determine_status(joined),
         color     |-> get_status_color(streamflow_determine_status(joined))]

\* StreamflowProcessor._calculate_current_conditions(data, stats): one row
\* per site, in the order of the groupby keys
current_conditions(tbl, n_hist, col, st) ==
    LET keys == Ascending(SitesOf(tbl))
    IN  [k \in 1..Len(keys) |-> CurrentRow(tbl, n_hist, col, st, keys[k])]

\* a run starts: nothing constructed yet, the history file on disk
InitUpdate ==
    /\ pc = "start"
    /\ processor \in UpdateProcessors
    /\ runs = 1
    /\ disk = [history |-> InitialHistory, written |-> {}]
    /\ sites = <<>> /\ site = 0 /\ failed = {}
    /\ historic_data = <<>> /\ new_data = <<>> /\ combined_data = <<>>
    /\ stats_arg = <<>>
    /\ df = [date |-> [year |-> FirstYear, month |-> 1, day |-> 1]]
    /\ Idle

\* the constructor of a processor: GlobalSetup() writes update_date.csv
\* (create_update_date), then _load_historical_data reads the sites file
\* (its rows in the order they have there) and the history file; a missing
\* directory or file, or a failed read, is raised
processor_init ==
    /\ pc = "start"
    /\ disk' = [disk EXCEPT !.written = @ \cup {"update_date.csv"}]
    /\ \E readable \in BOOLEAN, order \in SiteOrders :
          IF readable
          THEN /\ sites' = order
               /\ historic_data' = disk.history
               /\ site' = 1
               /\ pc' = "fetch"
          ELSE /\ pc' = "aborted"
               /\ UNCHANGED <<sites, historic_data, site>>
    /\ UNCHANGED <<processor, runs, failed, new_data, combined_data, stats_arg>>
    /\ UNCHANGED calc_vars

\* one pass of the loop of update_streamflow_data: _fetch_nwis_data for the
\* site, from the day after its last day in the history to today; the
\* request raises (logged, re-raised, not caught by the loop) or returns the
\* rows of some of the requested days (all of one value here), and a
\* non-empty frame is appended
fetch_nwis_data ==
    /\ processor = "streamflow" /\ pc = "fetch"
    /\ \E ok \in BOOLEAN, K \in SUBSET ((LastDate(sites[site]) + 1)..Today),
          v \in FetchedValues :
          IF ok
          THEN /\ new_data' = new_data \o RowsOf({sites[site]} \X K, v)
               /\ site' = site + 1
               /\ pc' = IF site = NumSites THEN "fetched" ELSE "fetch"
               /\ UNCHANGED failed
          ELSE /\ failed' = failed \cup {sites[site]}
               /\ pc' = "aborted"
               /\ UNCHANGED <<new_data, site>>
    /\ UNCHANGED <<sites, processor, runs, disk, historic_data, combined_data, stats_arg>>
    /\ UNCHANGED calc_vars

\* one pass of the loop of _fetch_district_data: _fetch_reservoir_data for
\* the site (the last two weeks), processed and appended; a failed request
\* is logged and re-raised, and the loop does not catch it
fetch_reservoir_data ==
    /\ processor = "reservoir" /\ pc = "fetch"
    /\ \E ok \in BOOLEAN, K \in SUBSET ReservoirWindow :
          IF ok
          THEN /\ new_data' = new_data \o RowsOf({sites[site]} \X K, 1)
               /\ site' = site + 1
               /\ pc' = IF site = NumSites THEN "fetched" ELSE "fetch"
               /\ UNCHANGED failed
          ELSE /\ failed' = failed \cup {sites[site]}
               /\ pc' = "aborted"
               /\ UNCHANGED <<new_data, site>>
    /\ UNCHANGED <<sites, processor, runs, disk, historic_data, combined_data, stats_arg>>
    /\ UNCHANGED calc_vars

\* GroundwaterProcessor._fetch_gsheet_data: all sheets of the workbook in
\* one call, every well with all its rows; an error is re-raised
groundwater_fetch_gsheet_data ==
    /\ processor = "groundwater" /\ pc = "fetch"
    /\ \E ok \in BOOLEAN, K \in SUBSET (Sites \X (1..Today)) :
          IF ok
          THEN /\ new_data' = RowsOf(K, 1)
               /\ pc' = "fetched"
               /\ UNCHANGED failed
          ELSE /\ failed' = Sites
               /\ pc' = "aborted"
               /\ UNCHANGED new_data
    /\ UNCHANGED <<sites, processor, runs, disk, site, historic_data, combined_data, stats_arg>>
    /\ UNCHANGED calc_vars

\* WaterQualityProcessor._fetch_gsheet_data: all records of the worksheet,
\* those of earlier years (day 0) included; an error is re-raised
water_quality_fetch_gsheet_data ==
    /\ processor = "water_quality" /\ pc = "fetch"
    /\ \E ok \in BOOLEAN, K \in SUBSET (Sites \X (0..Today)) :
          IF ok
          THEN /\ new_data' = RowsOf(K, 1)
               /\ pc' = "fetched"
               /\ UNCHANGED failed
          ELSE /\ failed' = Sites
               /\ pc' = "aborted"
               /\ UNCHANGED new_data
    /\ UNCHANGED <<sites, processor, runs, disk, site, historic_data, combined_data, stats_arg>>
    /\ UNCHANGED calc_vars

\* update_streamflow_data after the loop: with no fetched frame
\* (`if new_data:` is False) nothing is computed or saved and the run ends
\* with its success message; otherwise the fetched rows get their julian
\* day, year and rolling mean, are concatenated to the history, and the
\* statistics are computed from the combined data
update_streamflow_data ==
    /\ processor = "streamflow" /\ pc = "fetched"
    /\ IF new_data = <<>>
       THEN /\ pc' = "done"
            /\ UNCHANGED <<combined_data, stats_arg, roll_mean, stats>>
       ELSE /\ roll_mean' = calculate_rolling_average(new_data, DefaultWindow)
            /\ combined_data' = concat(historic_data, new_data)
            /\ stats_arg' = <<combined_data'>>
            /\ stats' = flow_statistics(combined_data',
                                        NewColumn(historic_data, roll_mean'))
            /\ pc' = "stats"
    /\ UNCHANGED <<sites, processor, runs, disk, site, failed, historic_data, new_data>>
    /\ UNCHANGED <<df, obs, flow, conditions, status, color, series, window>>

\* _calculate_current_conditions on the combined data:
\* data.groupby('site')['datetime'].idxmax() has no label for a site whose
\* rows all come from the history (they carry no 'datetime'), and data.loc
\* raises on it; the error is logged and re-raised
streamflow_current_conditions ==
    /\ processor = "streamflow" /\ pc = "stats"
    /\ IF SitesOf(combined_data) \subseteq SitesOf(new_data)
       THEN /\ conditions' = current_conditions(combined_data, Len(historic_data),
                                  NewColumn(historic_data, roll_mean), stats)
            /\ pc' = "saving"
       ELSE /\ pc' = "aborted"
            /\ UNCHANGED conditions
    /\ UNCHANGED update_vars
    /\ UNCHANGED <<df, obs, flow, stats, status, color, series, window, roll_mean>>

\* update_reservoir_data after the fetch: _add_julian_dates, then
\* new_data['storage_AF'] / new_data['OT_AF'], which raises KeyError when
\* new_data has no such column; then the concatenation with old_data and
\* the statistics of all_data
update_reservoir_data ==
    /\ processor = "reservoir" /\ pc = "fetched"
    /\ IF "OT_AF" \in reservoir_new_data_columns
       THEN /\ combined_data' = concat(historic_data, new_data)
            /\ stats_arg' = <<combined_data'>>
            /\ pc' = "saving"
       ELSE /\ pc' = "aborted"
            /\ UNCHANGED <<combined_data, stats_arg>>
    /\ UNCHANGED <<sites, processor, runs, disk, site, failed, historic_data, new_data>>
    /\ UNCHANGED calc_vars

\* update_groundwater_data after the fetch: process_groundwater_data calls
\* self.setup.add_julian_dates, an AttributeError when GlobalSetup has no
\* such method; then calculate_statistics(processed_data) and create_geojson
\* on the fetched rows, which are also what save_outputs writes
update_groundwater_data ==
    /\ processor = "groundwater" /\ pc = "fetched"
    /\ IF "add_julian_dates" \in GlobalSetupMethods
       THEN /\ combined_data' = new_data
            /\ stats_arg' = <<new_data>>
            /\ pc' = "saving"
       ELSE /\ pc' = "aborted"
            /\ UNCHANGED <<combined_data, stats_arg>>
    /\ UNCHANGED <<sites, processor, runs, disk, site, failed, historic_data, new_data>>
    /\ UNCHANGED calc_vars

\* update_water_quality_data after the fetch: the rows of 2022 and later
\* become new_data and are concatenated to the history
update_water_quality_data ==
    /\ processor = "water_quality" /\ pc = "fetched"
    /\ new_data' = FilterRecent(new_data)
    /\ combined_data' = concat(historic_data, new_data')
    /\ pc' = "saving"
    /\ UNCHANGED <<sites, processor, runs, disk, site, failed, historic_data, stats_arg>>
    /\ UNCHANGED calc_vars

\* one write of _save_processed_data / save_outputs: the next file of the
\* processor's list is overwritten (to_csv, to_file), or the write raises and
\* the error is logged and re-raised; the files already written stay written
save_processed_data ==
    /\ pc = "saving"
    /\ LET files == SaveFiles(processor)
           n == Cardinality({i \in 1..Len(files) : files[i] \in disk.written}) + 1
       IN  \E ok \in BOOLEAN :
              IF ok
              THEN /\ disk' = [written |-> disk.written \cup {files[n]},
                               history |-> IF files[n] = HistoryFile(processor)
                                           THEN combined_data ELSE disk.history]
                   /\ pc' = IF n = Len(files) THEN "done" ELSE "saving"
              ELSE /\ pc' = "aborted"
                   /\ UNCHANGED disk
    /\ UNCHANGED <<sites, processor, runs, site, failed, historic_data, new_data,
                   combined_data, stats_arg>>
    /\ UNCHANGED calc_vars

\* the script is started again: a new process, with what is on disk
next_run ==
    /\ pc \in {"done", "aborted"}
    /\ runs < MaxRuns
    /\ runs' = runs + 1
    /\ pc' = "start"
    /\ disk' = [disk EXCEPT !.written = {}]
    /\ sites' = <<>> /\ site' = 0 /\ failed' = {}
    /\ historic_data' = <<>> /\ new_data' = <<>> /\ combined_data' = <<>>
    /\ stats_arg' = <<>>
    /\ roll_mean' = <<>> /\ stats' = <<>> /\ conditions' = <<>>
    /\ UNCHANGED processor
    /\ UNCHANGED <<df, obs, flow, status, color, series, window>>

NextUpdate ==
    \/ processor_init
    \/ fetch_nwis_data
    \/ fetch_reservoir_data
    \/ groundwater_fetch_gsheet_data
    \/ water_quality_fetch_gsheet_data
    \/ update_streamflow_data
    \/ streamflow_current_conditions
    \/ update_reservoir_data
    \/ update_groundwater_data
    \/ update_water_quality_data
    \/ save_processed_data
    \/ next_run

SpecUpdate == InitUpdate /\ [][NextUpdate]_vars

-----------------------------------------------------------------------------
(* Demand: process_demand_by_source and calculate_cumulative_demand of     *)
(* DemandDataProcessor.  demand_data (new_data here) is the table as       *)
(* fetched, a row [pwsid, date, total] with the cells as they came; df is  *)
(* the copy the methods work on.                                           *)

\* the largest number of rows of a demand table
MaxDemandRows == 3

\* a cell that is neither a number nor empty (e.g. the text 'n/a')
Malformed == -2

\* a date cell that pd.to_datetime cannot parse
NoDate == [year |-> 0, month |-> 0, day |-> 0]

Pwsids == 1..NumSites

\* the dates of the demand rows: two days of one year, one day of a later
\* (leap) year
DemandDates ==
    {[year |-> 2022, month |-> 1, day |-> 1],
     [year |-> 2022, month |-> 3, day |-> 1],
     [year |-> 2024, month |-> 3, day |-> 1]}

\* a 'total' cell: a number (thousands of gallons a day), empty, or malformed
DemandCells == (1..MaxValue) \cup {NaN, Malformed}

DemandRows == [pwsid : Pwsids, date : DemandDates \cup {NoDate}, total : DemandCells]

\* pd.to_numeric(cell, errors='coerce'): NaN for what is no number
to_numeric_coerce(cell) == IF cell = Malformed THEN NaN ELSE cell

\* df[mgd_columns].apply(pd.to_numeric, errors='coerce').fillna(0) / 1000 on
\* one cell; the quotient is kept in thousandths of an MGD, so that it is
\* the whole number of the cell
to_mgd(cell) ==
    LET numeric == to_numeric_coerce(cell)
    IN  IF IsNaN(numeric) THEN 0 ELSE numeric

\* groupby(['pwsid', 'year'])['total'].cumsum(): for every row the sum of
\* total over the rows of its group that stand at or above it in the table
groupby_cumsum(tbl) ==
    [i \in 1..Len(tbl) |->
        SumAt([j \in 1..Len(tbl) |-> tbl[j].total],
              {j \in 1..i : /\ tbl[j].pwsid = tbl[i].pwsid
                            /\ tbl[j].year = tbl[i].year})]

\* a demand table has been fetched
InitDemand ==
    /\ pc = "demand_fetched"
    /\ new_data \in SeqUpTo(DemandRows, MaxDemandRows)
    /\ df = <<>>
    /\ processor = "none" /\ runs = 0
    /\ disk = [history |-> <<>>, written |-> {}]
    /\ sites = <<>> /\ site = 0 /\ failed = {}
    /\ historic_data = <<>> /\ combined_data = <<>> /\ stats_arg = <<>>
    /\ Idle

\* DemandDataProcessor.process_demand_by_source(demand_data): the cells are
\* made numbers (what is no number becomes 0), the column is smoothed as a
\* whole, and add_julian_dates converts the dates (pd.to_datetime raises on
\* what is no date; the error is logged and re-raised) and looks up the
\* julian day of every row
process_demand_by_source ==
    /\ pc = "demand_fetched"
    /\ LET total == [i \in 1..Len(new_data) |-> to_mgd(new_data[i].total)]
           total_ma == moving_average(total, DefaultWindow)
           row(i) == [date |-> new_data[i].date,
                      day_month |-> StrfMonthDay(new_data[i].date.month,
                                                 new_data[i].date.day)]
       IN  IF \E i \in 1..Len(new_data) : new_data[i].date = NoDate
           THEN pc' = "error" /\ df' = df
           ELSE /\ pc' = "demand_processed"
                /\ df' = [i \in 1..Len(new_data) |->
                            [pwsid    |-> new_data[i].pwsid,
                             date     |-> new_data[i].date,
                             total    |-> total[i],
                             total_ma |-> total_ma[i],
                             year     |-> new_data[i].date.year,
                             julian   |-> demand_get_julian_day(julian_ref, row(i))[1]]]
    /\ UNCHANGED <<obs, flow, stats, conditions, status, color,
                   series, window, roll_mean>>
    /\ UNCHANGED update_vars

\* DemandDataProcessor.calculate_cumulative_demand(df): df_cum, the copy of
\* df with the column cum_demand
calculate_cumulative_demand ==
    /\ pc = "demand_processed"
    /\ pc' = "demand_cum"
    /\ LET cum == groupby_cumsum(df)
       IN  df' = [i \in 1..Len(df) |->
                    [pwsid      |-> df[i].pwsid,
                     date       |-> df[i].date,
                     total      |-> df[i].total,
                     total_ma   |-> df[i].total_ma,
                     year       |-> df[i].year,
                     julian     |-> df[i].julian,
                     cum_demand |-> cum[i]]]
    /\ UNCHANGED <<obs, flow, stats, conditions, status, color,
                   series, window, roll_mean>>
    /\ UNCHANGED update_vars

NextDemand == process_demand_by_source \/ calculate_cumulative_demand

SpecDemand == InitDemand /\ [][NextDemand]_vars

-----------------------------------------------------------------------------
(* Claims about the default window, checked under SpecSmoothDefault        *)

\* C11: with window = 7 the moving average of a constant series of value v is
\* v at every position, and output[0] is series[0] itself (absent when
\* series[0] is absent), whatever the later elements are.
C11_ConstantAndFirst ==
    (pc = "smoothed" /\ window = 7) =>
        /\ \A v \in 0..MaxValue :
              (\A i \in 1..Len(series) : series[i] = v)
                  => \A i \in 1..Len(series) : roll_mean[i] = RollScale * v
        /\ Len(series) >= 1 =>
              roll_mean[1] = IF IsNaN(series[1]) THEN NaN ELSE RollScale * series[1]

C11_Witness ==
    /\ pc = "smoothed" /\ window = 7 /\ Len(series) = 9
    /\ \A i \in 1..9 : series[i] = 2
    /\ \A i \in 1..9 : roll_mean[i] = RollScale * 2

-----------------------------------------------------------------------------
(* Claims about the band rows, checked under SpecStatus                    *)

\* C12: every row of the statistics table has its percentiles in order,
\* flow10 <= flow25 <= flow50 <= flow75 <= flow90.
C12_PercentilesOrdered ==
    stats # <<>> =>
        /\ Le(stats[1].flow10, stats[1].flow25)
        /\ Le(stats[1].flow25, stats[1].flow50)
        /\ Le(stats[1].flow50, stats[1].flow75)
        /\ Le(stats[1].flow75, stats[1].flow90)

-----------------------------------------------------------------------------
(* Claims about the example band, checked under SpecExample                *)

\* C13: the band built from the five observations 5, 10, 15, 20, 25 of one
\* site and day index is Nobs 5, min 5, p10 7, p25 10, p50 15, p75 20,
\* p90 23, max 25, the percentiles by linear interpolation.
C13_ExampleBand ==
    stats # <<>> =>
        stats[1] = [Nobs |-> 5, min |-> Scale * 5, flow10 |-> Scale * 7,
                    flow25 |-> Scale * 10, flow50 |-> Scale * 15,
                    flow75 |-> Scale * 20, flow90 |-> Scale * 23,
                    max |-> Scale * 25]

\* C13 as it was stated: the band has p10 = 5 and p90 = 25.
C13_Original ==
    stats # <<>> =>
        stats[1] = [Nobs |-> 5, min |-> Scale * 5, flow10 |-> Scale * 5,
                    flow25 |-> Scale * 10, flow50 |-> Scale * 15,
                    flow75 |-> Scale * 20, flow90 |-> Scale * 25,
                    max |-> Scale * 25]

C13_Witness ==
    /\ pc = "stats" /\ obs = <<25, 5, 20, 10, 15>>
    /\ stats # <<>> /\ stats[1].Nobs = 5
    /\ stats[1].flow10 = Scale * 7 /\ stats[1].flow90 = Scale * 23

\* C14: with the band built from 5, 10, 15, 20, 25, the streamflow
\* classification of current = 7 is "Extremely Dry" (7 <= p10 = 7).
C14_ExampleStatus ==
    (status.streamflow # "unset" /\ flow = Scale * 7) =>
        status.streamflow = "Extremely Dry"

\* C14 as it was stated: current = 7 is classified "Very Dry".
C14_Original ==
    (status.streamflow # "unset" /\ flow = Scale * 7) =>
        status.streamflow = "Very Dry"

C14_Witness ==
    /\ obs = ExampleHistory /\ flow = Scale * 7
    /\ conditions # <<>> /\ conditions.flow10 = Scale * 7
    /\ status.streamflow = "Extremely Dry"

-----------------------------------------------------------------------------
(* Claims about the update runs, checked under SpecUpdate                  *)

\* the rows of tbl with the (site, date) key of row r
SameKey(tbl, r) ==
    {i \in 1..Len(tbl) : tbl[i].site = r.site /\ tbl[i].date = r.date}

\* at most one row per (site, date) key
KeyUnique(tbl) == \A i \in 1..Len(tbl) : SameKey(tbl, tbl[i]) = {i}

RowSet(tbl) == {tbl[i] : i \in 1..Len(tbl)}

\* C15: when the history and the new observations are merged and a
\* (site, date) key of the history comes again, with a different value,
\* among the new observations, the merged table has exactly one row for
\* that key, and it carries the new value.
C15_MergeKeepsNewest ==
    (processor \in {"streamflow", "reservoir", "water_quality"}
     /\ combined_data # <<>>) =>
        \A i \in 1..Len(historic_data), j \in 1..Len(new_data) :
            (/\ historic_data[i].site = new_data[j].site
             /\ historic_data[i].date = new_data[j].date
             /\ historic_data[i].value # new_data[j].value)
            => /\ Cardinality(SameKey(combined_data, new_data[j])) = 1
               /\ \A k \in SameKey(combined_data, new_data[j]) :
                     combined_data[k].value = new_data[j].value

\* C16: in a run over several sites (streamflow, reservoir) the failure of
\* one site's fetch does not abort the run, and a run with a failed site
\* that ends has fetched every other site and written its files.
C16_FailureSkipsSite ==
    (processor \in {"streamflow", "reservoir"} /\ failed # {}) =>
        /\ pc # "aborted"
        /\ pc = "done" =>
              /\ site = NumSites + 1
              /\ \A i \in 1..Len(SaveFiles(processor)) :
                    SaveFiles(processor)[i] \in disk.written

\* C17: a run that has aborted has overwritten no file; in particular the
\* merged series is not on disk without the band and status files.
C17_AbortWritesNothing ==
    pc = "aborted" =>
        /\ disk.written = {}
        /\ SaveFiles(processor)[1] \in disk.written
              => DerivedFiles(processor) \subseteq disk.written

\* the run has loaded the history and fetched every site without a failure
FetchComplete ==
    historic_data # <<>> /\ failed = {} /\ pc \notin {"start", "fetch"}

\* C18: a reservoir update run loads usace_dams.csv, fetches every site,
\* merges and writes usace_dams.csv back, and after any such runs the file
\* holds at most one observation per (site, date).
C18_HistoryKeyUnique ==
    processor = "reservoir" =>
        /\ KeyUnique(disk.history)
        /\ (pc \in {"done", "aborted"} /\ FetchComplete /\ new_data # <<>>) =>
              /\ "usace_dams.csv" \in disk.written
              /\ \A j \in 1..Len(new_data) : SameKey(disk.history, new_data[j]) # {}

\* C19: in the update run of each domain (groundwater, reservoir,
\* streamflow) the statistics step is handed a table, and that table holds
\* the rows of the loaded history and the fetched rows, both.
C19_StatisticsFromUnion ==
    processor \in {"groundwater", "reservoir", "streamflow"} =>
        /\ stats_arg # <<>> =>
              RowSet(stats_arg[1]) = RowSet(historic_data) \cup RowSet(new_data)
        /\ (pc \in {"stats", "saving", "done", "aborted"} /\ FetchComplete) =>
              stats_arg # <<>>

\* C20: a streamflow update run that ends without error has computed the
\* statistics and the current conditions and has written all its files,
\* also when no site returned a new observation.
C20_CompletedRunEmits ==
    (processor = "streamflow" /\ pc = "done") =>
        /\ stats_arg # <<>>
        /\ \A i \in 1..Len(SaveFiles("streamflow")) :
              SaveFiles("streamflow")[i] \in disk.written

-----------------------------------------------------------------------------
(* Claims about absent values in a group, checked under SpecStatus         *)

\* the band of the present values of a group alone: no row for a group
\* without a present value
BandOfPresent(xs) == calculate_statistics(DropNaN(xs))

\* C21: the band of a (site, julian) group is computed from the present
\* values of the group only: Nobs, min, the percentiles and max are those of
\* the group without its absent values, and a group without a present value
\* has no row in the statistics table.
C21_BandFromPresentValues ==
    pc = "stats" => stats = BandOfPresent(obs)

-----------------------------------------------------------------------------
(* Claims about the reference table and the runs' day index                *)

\* the row of df with the month-day 02-29 in place of its own
WithFeb29 == [date |-> df.date, day_month |-> StrfMonthDay(2, 29)]

\* C25: the non-leap column of the julian reference has no row for 02-29:
\* for a date of a non-leap year the lookup of 02-29 selects nothing (so
\* that its .iloc[0] raises) instead of returning an index, NaN included.
\* Checked under SpecCalendar.
C25_NonLeapLookupOfFeb29Fails ==
    ~IsLeapYear(df.date.year) =>
        /\ \A p \in 1..Len(julian_ref) :
              julian_ref[p].day_month # StrfMonthDay(2, 29)
        /\ reservoir_get_julian_day(julian_ref, WithFeb29) = <<>>
        /\ demand_get_julian_day(julian_ref, WithFeb29) = <<>>

\* C26: a groundwater run whose fetch returned rows with valid dates gets
\* through process_groundwater_data without an error: the run goes on to
\* the statistics step with the processed rows, all of the fetched rows
\* among them.  Checked under SpecUpdate.
C26_GroundwaterProcessCompletes ==
    (processor = "groundwater" /\ FetchComplete /\ pc # "fetched") =>
        /\ stats_arg # <<>>
        /\ RowSet(new_data) \subseteq RowSet(combined_data)

\* C27: the day index the streamflow processor gives a fetched row, the
\* calendar day of the year of its date, is the index the lookups of the
\* reservoir and demand processors find for the same date in the julian
\* reference, for every valid date of leap and non-leap years.  Checked
\* under SpecDayIndex.
C27_DayOfYearIsReferenceIndex ==
    /\ pc = "streamflow_julian" =>
          /\ reservoir_get_julian_day(julian_ref, WithDayMonth(df)) = <<df.julian>>
          /\ demand_get_julian_day(julian_ref, WithDayMonth(df)) = <<df.julian>>
    /\ pc \in {"reservoir_julian", "demand_julian"} =>
          df.julian = dayofyear(df.date)

C27_Witness ==
    /\ pc = "streamflow_julian"
    /\ GregorianLeap(df.date.year) /\ IsDate(3, 1) /\ df.julian = 61
    /\ reservoir_get_julian_day(julian_ref, WithDayMonth(df)) = <<61>>

-----------------------------------------------------------------------------
(* Claims about the demand table, checked under SpecDemand                 *)

\* a fetched record with a date and a number
WellFormed(r) == r.date # NoDate /\ r.total # Malformed /\ ~IsNaN(r.total)

\* C23: a fetched record whose date or value is malformed or missing does
\* not abort the processing and is dropped: the processed table holds the
\* well-formed records only, and the smoothed series is that of their
\* values (the dropped record counts for nothing, not even for a zero).
C23_MalformedRecordDropped ==
    pc \in {"demand_processed", "error"} =>
        /\ pc # "error"
        /\ LET kept == SelectSeq(new_data, WellFormed)
               total == [i \in 1..Len(kept) |-> to_mgd(kept[i].total)]
           IN  /\ Len(df) = Len(kept)
               /\ \A i \in 1..Len(kept) :
                     /\ df[i].pwsid = kept[i].pwsid
                     /\ df[i].date = kept[i].date
                     /\ df[i].total = total[i]
                     /\ df[i].total_ma = moving_average(total, DefaultWindow)[i]

\* a date before or equal to another
DateLe(a, b) ==
    \/ a.year < b.year
    \/ a.year = b.year /\ a.month < b.month
    \/ a.year = b.year /\ a.month = b.month /\ a.day <= b.day

\* the year-to-date sum of every row: the sum of total over the rows of its
\* (pwsid, year) dated on or before it
YearToDate(tbl) ==
    [i \in 1..Len(tbl) |->
        SumAt([j \in 1..Len(tbl) |-> tbl[j].total],
              {j \in 1..Len(tbl) : /\ tbl[j].pwsid = tbl[i].pwsid
                                   /\ tbl[j].year = tbl[i].year
                                   /\ DateLe(tbl[j].date, tbl[i].date)})]

\* no two rows of a utility carry the same date
OneRowPerDay(tbl) ==
    \A i, j \in 1..Len(tbl) :
        (tbl[i].pwsid = tbl[j].pwsid /\ tbl[i].date = tbl[j].date) => i = j

\* C28: cum_demand of a row is the sum of total over the rows of the same
\* (pwsid, year) dated on or before the row, in whatever order the rows of
\* the table stand (stated for tables with one row per utility and day).
C28_CumulativeIsYearToDate ==
    (pc = "demand_cum" /\ OneRowPerDay(df)) =>
        \A i \in 1..Len(df) : df[i].cum_demand = YearToDate(df)[i]

-----------------------------------------------------------------------------
(* Claims about the streamflow run's smoothing, bands and statuses,        *)
(* checked under SpecUpdate                                                *)

\* C22: in a streamflow run the row of every site in the current conditions
\* is the site's most recent observation of the combined data, and its
\* status is the class of that row's smoothed value (roll_mean) within the
\* band of the same site and of the row's julian day.
C22_ClassifiesSmoothedValue ==
    (processor = "streamflow" /\ conditions # <<>>) =>
        \A k \in 1..Len(conditions) :
            LET c == conditions[k]
                rows == {i \in 1..Len(combined_data) : combined_data[i].site = c.site}
            IN  /\ \A i \in rows : combined_data[i].date <= c.date
                /\ \E i \in 1..Len(new_data) :
                      /\ new_data[i].site = c.site /\ new_data[i].date = c.date
                      /\ roll_mean[i] = c.roll_mean
                /\ \E b \in 1..Len(stats) :
                      /\ stats[b].site = c.site /\ stats[b].julian = c.julian
                      /\ c.status = streamflow_determine_status(
                             MergeLeft(BandTicks(c.roll_mean), <<stats[b].band>>))

RECURSIVE InKeyOrder(_, _)
\* the rows of tbl at the positions I, ordered by site and date
InKeyOrder(tbl, I) ==
    IF I = {} THEN <<>>
    ELSE LET m == CHOOSE a \in I : \A b \in I :
                    \/ tbl[a].site < tbl[b].site
                    \/ (tbl[a].site = tbl[b].site /\ tbl[a].date < tbl[b].date)
                    \/ (tbl[a].site = tbl[b].site /\ tbl[a].date = tbl[b].date /\ a <= b)
         IN  <<tbl[m]>> \o InKeyOrder(tbl, I \ {m})

\* C24: the merged data, the smoothed values, the band table and the
\* statuses of a streamflow run do not depend on the order in which the
\* sites are fetched: they are those of the run that fetches the same rows
\* in the order of the site ids.
C24_FetchOrderIrrelevant ==
    (processor = "streamflow" /\ stats_arg # <<>>) =>
        LET canon == InKeyOrder(new_data, 1..Len(new_data))
            canon_roll == calculate_rolling_average(canon, DefaultWindow)
            canon_all == concat(historic_data, canon)
            canon_col == NewColumn(historic_data, canon_roll)
            canon_stats == flow_statistics(canon_all, canon_col)
        IN  /\ RowSet(combined_data) = RowSet(canon_all)
            /\ {<<new_data[i], roll_mean[i]>> : i \in 1..Len(new_data)}
                 = {<<canon[i], canon_roll[i]>> : i \in 1..Len(canon)}
            /\ RowSet(stats) = RowSet(canon_stats)
            /\ conditions # <<>> =>
                  conditions = current_conditions(canon_all, Len(historic_data),
                                                  canon_col, canon_stats)

C24_Witness ==
    /\ processor = "streamflow" /\ pc = "saving" /\ conditions # <<>>
    /\ sites[1] > sites[2]
    /\ Len(new_data) >= 2
    /\ new_data[1].site = sites[1] /\ new_data[2].site = sites[2]
    /\ new_data[1].value # new_data[2].value
    /\ roll_mean[1] # roll_mean[2]

=============================================================================
